---- MODULE Spec2Model ----
(***************************************************************************)
(* Model of logging-ts: the logger registry (getLogger, attachHandler,     *)
(* detachHandler, getAllLoggers, setupLoggerSync) and the level-aware      *)
(* dispatch installed by wrapLogger (createLogMethod, createExceptionMethod)*)
(* on top of the @std/log substrate.                                       *)
(*                                                                         *)
(* Every log call runs synchronously to completion, so one call is one     *)
(* step; what it did is kept in lastCall as the ordered list of events:    *)
(* lazy callables invoked, sprintf runs, internal diagnostics, and calls   *)
(* of the underlying @std/log severity method with the sinks that emitted. *)
(***************************************************************************)
EXTENDS Integers, Sequences, FiniteSets, TLC

\* ------------------------------------------------------------------ bounds

\* Most sinks attached through attachHandler that are attached at one time,
\* over all loggers.
MaxAttached == 2

\* Most getLogger calls made by the process (each one re-wraps the logger).
MaxWraps == 2

\* ------------------------------------------------------- severities, names

LogLevels ==
    [NOTSET |-> 0, DEBUG |-> 10, INFO |-> 20, WARN |-> 30, ERROR |-> 40, CRITICAL |-> 50]

\* h.level <= level, logger.level > level: comparisons of the numeric levels
LevelLeq(a, b) == LogLevels[a] <= LogLevels[b]

\* The loggers of the model: the process-wide default logger and one name,
\* "app", which the configuration may or may not list under modules.
LoggerKeys == {"default", "app"}

\* The name argument of the API; "" stands for an omitted (undefined) name.
NameArgs == {"", "app"}

\* const cacheKey = name || "default"
cacheKey(name) == IF name = "" THEN "default" ELSE name

\* Sinks built by setupLoggerSync from the configuration.
ConfigHandlers == {"console", "file", "console_app", "file_app"}

\* Sinks constructed by the caller and passed to attachHandler/detachHandler.
UserHandlers == {"s1", "s2"}

\* The ConsoleHandler of @std/log's state before setup() replaces it.
StdDefaultHandler == "std_default"

Handlers == ConfigHandlers \cup UserHandlers \cup {StdDefaultHandler}

\* The level each caller-made sink is constructed with (new MockHandler("DEBUG")).
UserHandlerLevel == [s1 |-> "DEBUG", s2 |-> "INFO"]

\* --------------------------------------------------------- configuration

\* One console/file section of logging.jsonc; level "" is an omitted level.
Sect(present, enabled, level) ==
    [present |-> present, enabled |-> enabled, level |-> level]

NoSect == Sect(FALSE, TRUE, "")

Config(exists, console, file, appConfigured, appConsole, appFile) ==
    [exists |-> exists, console |-> console, file |-> file,
     app |-> [configured |-> appConfigured, console |-> appConsole, file |-> appFile]]

\* The contents ./configs/logging.jsonc can have in this model.
Configs ==
    { Config(FALSE, NoSect, NoSect, FALSE, NoSect, NoSect),
      Config(TRUE, Sect(TRUE, TRUE, "DEBUG"), NoSect, FALSE, NoSect, NoSect),
      Config(TRUE, Sect(TRUE, FALSE, ""), NoSect, FALSE, NoSect, NoSect),
      Config(TRUE, Sect(TRUE, TRUE, ""), Sect(TRUE, TRUE, "DEBUG"), TRUE, NoSect, NoSect),
      Config(TRUE, Sect(TRUE, TRUE, "INFO"), NoSect, TRUE,
             Sect(TRUE, FALSE, ""), Sect(TRUE, FALSE, "")),
      Config(TRUE, Sect(TRUE, TRUE, "WARN"), NoSect, TRUE,
             Sect(TRUE, TRUE, "DEBUG"), NoSect) }

VARIABLES
    fileConfig,       \* what ./configs/logging.jsonc holds (read once, at setup)
    isConfigured,     \* let isConfigured
    defaultHandlers,  \* let defaultHandlers: BaseHandler[]
    loggerCache,      \* keys of const loggerCache (each maps to the @std/log logger of its name)
    stdLoggers,       \* @std/log's loggers: exists, level, handlers (the sink list)
    wrapped,          \* how many times wrapLogger has wrapped each logger object
    handlerLevel,     \* the level of each sink; "none" for a sink not built
    lastCall          \* the latest log call and the events it caused

vars ==
    <<fileConfig, isConfigured, defaultHandlers, loggerCache, stdLoggers, wrapped,
      handlerLevel, lastCall>>

\* ------------------------------------------------------------ @std/log

NoLogger == [exists |-> FALSE, level |-> "NOTSET", handlers |-> <<>>]

StdLogger(level, handlers) == [exists |-> TRUE, level |-> level, handlers |-> handlers]

\* getStdLogger(name): the registered logger, registering a new one without
\* sinks at NOTSET for a name that has none.
getStdLogger(std, key) ==
    IF std[key].exists THEN std ELSE [std EXCEPT ![key] = StdLogger("NOTSET", <<>>)]

\* -------------------------------------------------------- setupLoggerSync

\* loggingConfig: the file's contents, or the built-in default without a file
loadLoggingConfigSync(fc) ==
    IF fc.exists THEN fc
    ELSE Config(TRUE, Sect(TRUE, TRUE, "INFO"), NoSect, FALSE, NoSect, NoSect)

\* (x.level as LevelName) || "INFO"
LevelOrInfo(sect) == IF sect.level = "" THEN "INFO" ELSE sect.level

\* const defaultConsoleConfig = loggingConfig.console || { enabled: true, level: "INFO" }
defaultConsoleConfig(cfg) ==
    IF cfg.console.present THEN cfg.console ELSE Sect(TRUE, TRUE, "INFO")

HasDefaultConsole(cfg) == defaultConsoleConfig(cfg).enabled

HasDefaultFile(cfg) == cfg.file.present /\ cfg.file.enabled

\* defaultHandlers = Object.keys(handlers).map(...), taken before the module sinks are added
DefaultHandlersOf(cfg) ==
    (IF HasDefaultConsole(cfg) THEN <<"console">> ELSE <<>>)
        \o (IF HasDefaultFile(cfg) THEN <<"file">> ELSE <<>>)

\* moduleHandlers of the module "app"
ModuleHandlersOf(cfg) ==
    (IF cfg.app.console.present
        THEN (IF cfg.app.console.enabled THEN <<"console_app">> ELSE <<>>)
        ELSE (IF HasDefaultConsole(cfg) THEN <<"console">> ELSE <<>>))
    \o
    (IF cfg.app.file.present
        THEN (IF cfg.app.file.enabled THEN <<"file_app">> ELSE <<>>)
        ELSE (IF HasDefaultFile(cfg) THEN <<"file">> ELSE <<>>))

\* the sinks setup builds, with their levels; the caller's sinks keep theirs
HandlersOf(cfg, hl) ==
    [h \in Handlers |->
        CASE h = "console" /\ HasDefaultConsole(cfg) -> LevelOrInfo(defaultConsoleConfig(cfg))
          [] h = "file" /\ HasDefaultFile(cfg) -> LevelOrInfo(cfg.file)
          [] h = "console_app" /\ cfg.app.configured /\ cfg.app.console.present
                /\ cfg.app.console.enabled -> LevelOrInfo(cfg.app.console)
          [] h = "file_app" /\ cfg.app.configured /\ cfg.app.file.present
                /\ cfg.app.file.enabled -> LevelOrInfo(cfg.app.file)
          [] OTHER -> hl[h]]

\* setup({handlers, loggers}): @std/log drops its loggers and builds the
\* configured ones, each at DEBUG with its sinks.
LoggersOf(cfg) ==
    [k \in LoggerKeys |->
        IF k = "default" THEN StdLogger("DEBUG", DefaultHandlersOf(cfg))
        ELSE IF cfg.app.configured THEN StdLogger("DEBUG", ModuleHandlersOf(cfg))
        ELSE NoLogger]

\* Variant of setupLoggerSync without the test of isConfigured: every call
\* loads the configuration and builds the sinks and loggers again (C25 tells
\* it from setupLoggerSync).
setupAlways ==
    LET cfg == loadLoggingConfigSync(fileConfig)
    IN  [std |-> LoggersOf(cfg), dh |-> DefaultHandlersOf(cfg),
         hl |-> HandlersOf(cfg, handlerLevel)]

\* The state setupLoggerSync leaves: unchanged when already configured.
setupLoggerSync ==
    IF isConfigured
    THEN [std |-> stdLoggers, dh |-> defaultHandlers, hl |-> handlerLevel]
    ELSE LET cfg == loadLoggingConfigSync(fileConfig)
         IN  [std |-> LoggersOf(cfg), dh |-> DefaultHandlersOf(cfg),
              hl |-> HandlersOf(cfg, handlerLevel)]

\* -------------------------------------------------------------- registry

\* Variant of the initialization that sets the level and pushes no sink (C12
\* tells it from the initialization).
levelOnly(lg, dh) == StdLogger("DEBUG", lg.handlers)

\* Variant of the initialization that pushes the default sinks and leaves the
\* level as @std/log made it (C28 tells it from the initialization).
sinksOnly(lg, dh) == [lg EXCEPT !.handlers = @ \o dh]

\* initializeUnconfiguredLogger: level DEBUG, then push every default sink
initializeUnconfiguredLogger(lg, dh) ==
    StdLogger("DEBUG", lg.handlers \o dh)

\* if (logger.handlers.length === 0 && name) initializeUnconfiguredLogger(logger)
InitializeIfUnconfigured(std, name, dh) ==
    LET key == cacheKey(name)
    IN  IF Len(std[key].handlers) = 0 /\ name # ""
        THEN [std EXCEPT ![key] = initializeUnconfiguredLogger(std[key], dh)]
        ELSE std

\* Variant of the cache miss that initializes only a logger @std/log did not
\* have yet, and leaves a logger setup built as setup wired it (C30 tells it
\* from the cache miss).
createUnlessBuilt(std, name, dh) ==
    IF std[cacheKey(name)].exists THEN std
    ELSE InitializeIfUnconfigured(getStdLogger(std, cacheKey(name)), name, dh)

\* The logger a cache miss puts in the cache for name.
CreateLogger(std, name, dh) ==
    InitializeIfUnconfigured(getStdLogger(std, cacheKey(name)), name, dh)

\* No error value: the err of a call that is not exception(v).
NoError == [isError |-> FALSE, stack |-> "", name |-> "", message |-> "", str |-> ""]

NoCall ==
    [name |-> "", method |-> "none", level |-> "NOTSET", msg |-> <<>>, args |-> <<>>,
     err |-> NoError, depth |-> 0, trace |-> <<>>, handler |-> "", before |-> <<>>,
     earlier |-> <<>>]

\* The latest operation was attachHandler or detachHandler of the sink h on
\* the logger of name, whose sink list was before when it was looked up.
HandlerCall(method, name, h, before) ==
    [NoCall EXCEPT !.method = method, !.name = name, !.handler = h, !.before = before]

\* No call is waiting to be looked at: the caller runs one operation at a
\* time and looks at what a call did before its next operation.
Idle == lastCall.method = "none"

TotalWraps == wrapped["default"] + wrapped["app"]

\* Variant of the push that puts the sink at the head of the list (C13 tells
\* it from the push).
pushFront(lg, h) == [lg EXCEPT !.handlers = <<h>> \o @]

\* Variant of the push that overwrites the list with the one sink, as a lost
\* update would (C24 tells it from the push).
pushOverwriting(lg, h) == [lg EXCEPT !.handlers = <<h>>]

\* logger.handlers.push(handler)
PushHandler(lg, h) == [lg EXCEPT !.handlers = Append(@, h)]

\* logger.handlers.indexOf(handler): 0 stands for -1
IndexOf(seq, h) ==
    IF \E i \in 1..Len(seq) : seq[i] = h
    THEN CHOOSE i \in 1..Len(seq) : seq[i] = h /\ \A j \in 1..(i - 1) : seq[j] # h
    ELSE 0

\* Variant of the splice that takes out two entries (C15 tells it from the
\* splice of one).
spliceTwo(seq, index) ==
    [i \in 1..(IF index < Len(seq) THEN Len(seq) - 2 ELSE Len(seq) - 1) |->
        IF i < index THEN seq[i] ELSE seq[i + 2]]

\* logger.handlers.splice(index, 1)
Splice(seq, index) ==
    [i \in 1..(Len(seq) - 1) |-> IF i < index THEN seq[i] ELSE seq[i + 1]]

\* Variant of the removal that takes out every entry of the sink (C5 tells
\* it from the removal of one).
removeEvery(lg, h) == [lg EXCEPT !.handlers = SelectSeq(@, LAMBDA x : x # h)]

\* Variant of the removal without the test of the index: splice(-1, 1) takes
\* out the last entry (C14 tells it from the removal).
spliceUnchecked(lg, h) ==
    LET index == IndexOf(lg.handlers, h)
    IN  [lg EXCEPT !.handlers = Splice(@, IF index # 0 THEN index ELSE Len(@))]

\* const index = indexOf(handler); if (index !== -1) splice(index, 1)
RemoveHandler(lg, h) ==
    LET index == IndexOf(lg.handlers, h)
    IN  IF index # 0 THEN [lg EXCEPT !.handlers = Splice(@, index)] ELSE lg

\* Entries of the sink lists that are caller-made sinks.
Attached(std) ==
    LET n(k) == Cardinality({i \in 1..Len(std[k].handlers) : std[k].handlers[i] \in UserHandlers})
    IN  n("default") + n("app")

\* ---------------------------------------------------- arguments, formats

\* An argument value: a string, a number, a value whose conversion raises
\* (k = "bad"), or a zero-argument callable (k = "lazy", v names it).
Val(k, v) == [k |-> k, v |-> v]

\* What each callable does when invoked: return a value, or throw an Error
\* with the message v.
LazyFns ==
    [f_name |-> [throws |-> FALSE, k |-> "str", v |-> "Bob"],
     f_age  |-> [throws |-> FALSE, k |-> "num", v |-> "30"],
     f_boom |-> [throws |-> TRUE,  k |-> "",    v |-> "boom"],
     f_bang |-> [throws |-> TRUE,  k |-> "",    v |-> "bang"]]

\* A format string as its pieces in order: literal text (s is the text), a
\* conversion "%" + s, or the two characters "%%".
Lit(s) == [t |-> "lit", s |-> s]
Conv(c) == [t |-> "conv", s |-> c]
Pct == [t |-> "pct", s |-> "%%"]

\* The conversion letters of the model that take an argument; any other
\* letter (here q) is not a conversion.
KnownConversions == {"s", "d", "v"}

RECURSIVE Raw(_)
\* The characters of a format string as the caller wrote it.
Raw(msg) ==
    IF Len(msg) = 0 THEN ""
    ELSE (IF msg[1].t = "conv" THEN "%" \o msg[1].s ELSE msg[1].s) \o Raw(Tail(msg))

\* The (msg, ...args) a log method is called with in this model.  No call
\* passes a callable beyond the arguments its format consumes.
CallInputs ==
    { [msg |-> <<Lit("started")>>, args |-> <<>>],
      [msg |-> <<Lit("50"), Pct, Lit(" of "), Conv("s")>>, args |-> <<>>],
      [msg |-> <<Lit("User "), Conv("s"), Lit(" has ID "), Conv("d")>>,
       args |-> <<Val("str", "john"), Val("num", "123")>>],
      [msg |-> <<Conv("s"), Lit(" is "), Conv("d"), Pct>>,
       args |-> <<Val("lazy", "f_name"), Val("lazy", "f_age")>>],
      [msg |-> <<Lit("Result: "), Conv("s")>>, args |-> <<Val("lazy", "f_boom")>>],
      [msg |-> <<Conv("s"), Lit("/"), Conv("s")>>,
       args |-> <<Val("lazy", "f_boom"), Val("lazy", "f_bang")>>],
      [msg |-> <<Conv("s"), Lit(": "), Conv("v")>>,
       args |-> <<Val("lazy", "f_boom"), Val("bad", "obj")>>],
      [msg |-> <<Lit("Code: "), Conv("s"), Lit(" "), Conv("q"), Lit(" "), Conv("d")>>,
       args |-> <<Val("num", "1006")>>],
      [msg |-> <<Lit("Code: "), Conv("s"), Lit(" "), Conv("v")>>,
       args |-> <<Val("num", "1006"), Val("bad", "obj")>>] }

\* The values exception(v) is called with: an Error with a stack, an Error
\* without one, and a value that is no Error.
ErrorValues ==
    { [isError |-> TRUE, stack |-> "Error: boom at main.ts:1", name |-> "Error",
       message |-> "boom", str |-> "Error: boom"],
      [isError |-> TRUE, stack |-> "", name |-> "TypeError", message |-> "bad %s",
       str |-> "TypeError: bad %s"],
      [isError |-> FALSE, stack |-> "", name |-> "", message |-> "", str |-> "oops %d"] }

\* ----------------------------------------------------------------- events

Event(ev, logger, level, text, to) ==
    [ev |-> ev, logger |-> logger, level |-> level, text |-> text, to |-> to]

\* the callable named f was invoked
Invoked(f) == Event("invoke", "", "NOTSET", f, <<>>)

\* sprintf was entered with this format
Rendering(msg) == Event("sprintf", "", "NOTSET", Raw(msg), <<>>)

\* let errorFn: the fallback, console.error(`[logging-ts] ${message}`)
errorFn(message) == <<Event("internal", "", "ERROR", "[logging-ts] " \o message, <<>>)>>

\* internalError(message): errorFn(message)
internalError(message) == errorFn(message)

\* ---------------------------------------------------------------- sprintf

Placeholder == "[error evaluating lazy argument]"

\* The value an argument stands for once resolved: a callable is invoked, and
\* one that throws is replaced by the placeholder.
ResolveArg(a) ==
    IF a.k # "lazy" THEN a
    ELSE IF LazyFns[a.v].throws THEN Val("str", Placeholder)
    ELSE Val(LazyFns[a.v].k, LazyFns[a.v].v)

RECURSIVE createLogMethod(_, _, _, _, _, _)

\* Variant in which the diagnostic of a callable that threw goes to the
\* internal error channel (C8 tells it from a record of the default logger).
viaInternalError(w, message) == internalError("Error evaluating lazy argument: " \o message)

\* The diagnostic of a callable that threw.  sprintf is called with the
\* message and the arguments alone, so the logger it can reach is the one
\* @std/log's getLogger() returns, the default logger: its current error
\* method, with the text alone.
lazyArgumentError(w, message) ==
    createLogMethod(w, "default", "ERROR", w.wr["default"],
                    <<Lit("Error evaluating lazy argument: " \o message)>>, <<>>)

\* What resolving an argument does: the invocation, and the diagnostic of a
\* callable that threw.
ResolveEvents(w, a) ==
    IF a.k # "lazy" THEN <<>>
    ELSE <<Invoked(a.v)>>
            \o (IF LazyFns[a.v].throws THEN lazyArgumentError(w, LazyFns[a.v].v) ELSE <<>>)

\* The number of arguments the format consumes.
Consuming(msg) ==
    Cardinality({i \in 1..Len(msg) : msg[i].t = "conv" /\ msg[i].s \in KnownConversions})

Min(a, b) == IF a < b THEN a ELSE b

RECURSIVE ResolveAll(_, _, _, _)
\* Resolve the first n arguments, left to right, from the i-th.
ResolveAll(w, args, i, n) ==
    IF i > n THEN [vals |-> <<>>, events |-> <<>>]
    ELSE LET rest == ResolveAll(w, args, i + 1, n)
         IN  [vals |-> <<ResolveArg(args[i])>> \o rest.vals,
              events |-> ResolveEvents(w, args[i]) \o rest.events]

TypeName(v) == IF v.k = "num" THEN "number" ELSE IF v.k = "bad" THEN "object" ELSE "string"

\* One conversion of one resolved value.
Convert(c, v) ==
    CASE c = "s" /\ v.k = "str" ->
            [text |-> v.v, events |-> <<>>, threw |-> FALSE]
      [] c = "s" /\ v.k # "str" ->
            [text |-> "%s:arg_not_a_string",
             events |-> internalError("%s format specifier received " \o TypeName(v)
                                        \o " instead of string"),
             threw |-> FALSE]
      [] c = "d" /\ v.k = "num" -> [text |-> v.v, events |-> <<>>, threw |-> FALSE]
      [] c = "d" /\ v.k = "str" -> [text |-> "NaN", events |-> <<>>, threw |-> FALSE]
      [] c = "v" /\ v.k # "bad" -> [text |-> v.v, events |-> <<>>, threw |-> FALSE]
      [] OTHER -> [text |-> "", events |-> <<>>, threw |-> TRUE]

RECURSIVE Render(_, _)
\* The text of the pieces of a format over the resolved values: literal text
\* as it is, "%%" as one "%", a conversion from the next value, and a
\* conversion with no value left or with an unknown letter as written.
Render(msg, vals) ==
    IF Len(msg) = 0 THEN [text |-> "", events |-> <<>>, threw |-> FALSE]
    ELSE LET tok == msg[1]
             takes == tok.t = "conv" /\ tok.s \in KnownConversions /\ Len(vals) > 0
             here == IF takes THEN Convert(tok.s, vals[1])
                     ELSE [text |-> IF tok.t = "pct" THEN "%" ELSE Raw(<<tok>>),
                           events |-> <<>>, threw |-> FALSE]
         IN  IF here.threw THEN here
             ELSE LET rest == Render(Tail(msg), IF takes THEN Tail(vals) ELSE vals)
                  IN  [text |-> here.text \o rest.text,
                       events |-> here.events \o rest.events,
                       threw |-> rest.threw]

\* The message of the Error sprintf throws on a value it cannot convert.
ConversionError == "cannot convert value"

\* sprintf(msg, ...args): resolve, then render
sprintf(w, msg, args) ==
    LET res == ResolveAll(w, args, 1, Min(Len(args), Consuming(msg)))
        out == Render(msg, res.vals)
    IN  [text |-> out.text, threw |-> out.threw,
         error |-> ConversionError,
         events |-> <<Rendering(msg)>> \o res.events \o out.events]

\* --------------------------------------------------------------- dispatch

\* Variant of what a call reads: the loggers and sink levels as setup left
\* them, whatever was attached, detached or reassigned since (C27 tells it
\* from the state at the call).
AsSetupLeftIt ==
    LET cfg == loadLoggingConfigSync(fileConfig)
    IN  [std |-> [k \in LoggerKeys |->
                    IF LoggersOf(cfg)[k].exists THEN LoggersOf(cfg)[k]
                    ELSE StdLogger("DEBUG", DefaultHandlersOf(cfg))],
         hl |-> HandlersOf(cfg, [h \in Handlers |->
                                    IF h \in UserHandlers THEN UserHandlerLevel[h]
                                    ELSE handlerLevel[h]]),
         wr |-> wrapped]

\* The state a log call reads.
World == [std |-> stdLoggers, hl |-> handlerLevel, wr |-> wrapped]

\* BaseHandler.handle: the sinks of the list, in order, that accept the level
Accepting(w, handlers, level) ==
    SelectSeq(handlers, LAMBDA h : LevelLeq(w.hl[h], level))

\* Variant in which a record stops at the first sink that accepts it (C16
\* tells it from the hand-over to every sink).
firstSinkOnly(w, key, level, text) ==
    LET to == IF LevelLeq(w.std[key].level, level)
              THEN Accepting(w, w.std[key].handlers, level) ELSE <<>>
    IN  <<Event("std", key, level, text, IF to = <<>> THEN <<>> ELSE <<to[1]>>)>>

\* Logger.prototype[methodName] of @std/log: nothing below the logger's own
\* level; else one record, handled by every sink of the list
StdLog(w, key, level, text) ==
    <<Event("std", key, level, text,
            IF LevelLeq(w.std[key].level, level)
            THEN Accepting(w, w.std[key].handlers, level) ELSE <<>>)>>

\* if (logger.level > level) return
LevelTooHigh(w, key, level) == LogLevels[w.std[key].level] > LogLevels[level]

\* Variant of the gate's second condition that asks only whether any sink is
\* attached (C1 tells it from the gate).
anyHandlerAttached(w, key, level) == Len(w.std[key].handlers) > 0

\* Variant of the gate's second condition with the comparison turned round
\* (C2 tells it from the gate).
handlerAtOrAbove(w, key, level) ==
    \E i \in 1..Len(w.std[key].handlers) : LevelLeq(level, w.hl[w.std[key].handlers[i]])

\* logger.handlers.some((h) => h.level <= level)
hasAcceptingHandler(w, key, level) ==
    \E i \in 1..Len(w.std[key].handlers) : LevelLeq(w.hl[w.std[key].handlers[i]], level)

\* Variant in which a bare message is formatted like any other (C6 tells it
\* from the shortcut).
alwaysFormatted(args) == FALSE

\* if (args.length === 0) { logMethod(msg); return; }
NoFormatArgs(args) == Len(args) = 0

\* `sprintf failed: ${error.message}; falling back to raw output`
SprintfFailed(error) == "sprintf failed: " \o error \o "; falling back to raw output"

\* Variant of the catch block that warns and drops the call (C7 tells it from
\* the fallback).
warnOnly(warned, logged) == warned

\* catch (error) { getStdLogger().warn(...); logMethod(msg, ...args); }: what
\* the warning did, then what passing the call on unformatted did
catchBlock(warned, logged) == warned \o logged

\* The method wrapLogger installs, for a logger wrapped depth times: its
\* logMethod is the method that was on the logger when it was made, which is
\* the previous wrapper, or @std/log's own method under the first (depth 0).
createLogMethod(w, key, level, depth, msg, args) ==
    IF depth = 0 THEN StdLog(w, key, level, Raw(msg))
    ELSE IF LevelTooHigh(w, key, level) THEN <<>>
    ELSE IF ~hasAcceptingHandler(w, key, level) THEN <<>>
    ELSE IF NoFormatArgs(args) THEN createLogMethod(w, key, level, depth - 1, msg, <<>>)
    ELSE LET r == sprintf(w, msg, args)
         IN  IF ~r.threw
             THEN r.events \o createLogMethod(w, key, level, depth - 1, <<Lit(r.text)>>, <<>>)
             ELSE r.events
                    \o catchBlock(createLogMethod(w, "default", "WARN", w.wr["default"],
                                                  <<Lit(SprintfFailed(r.error))>>, <<>>),
                                  createLogMethod(w, key, level, depth - 1, msg, args))

\* Variant of formatError that gives the message alone (C10 tells it from the
\* error rendering).
messageOnly(e) == IF e.isError THEN e.message ELSE e.str

\* formatError(error)
formatError(e) ==
    IF e.isError
    THEN (IF e.stack # "" THEN e.stack ELSE e.name \o ": " \o e.message)
    ELSE "Non-Error exception: " \o e.str

\* The method createExceptionMethod makes: the gate at ERROR, then
\* logger.error(formatError(error)), the logger's current error method
createExceptionMethod(w, key, depth, e) ==
    IF LevelTooHigh(w, key, "ERROR") THEN <<>>
    ELSE IF ~hasAcceptingHandler(w, key, "ERROR") THEN <<>>
    ELSE createLogMethod(w, key, "ERROR", depth, <<Lit(formatError(e))>>, <<>>)

\* Variant in which warning is a method of its own, made at INFO (C17 tells
\* it from the alias).
warningAtInfo ==
    [debug |-> "DEBUG", info |-> "INFO", warn |-> "WARN", warning |-> "INFO",
     error |-> "ERROR", critical |-> "CRITICAL"]

\* The severity each method of the wrapped logger is made with; warning is
\* the warn method.
MethodLevel ==
    [debug |-> "DEBUG", info |-> "INFO", warn |-> "WARN", warning |-> "WARN",
     error |-> "ERROR", critical |-> "CRITICAL"]

Methods == DOMAIN MethodLevel

\* The levels a caller assigns to logger.level.
AssignedLevels == {"DEBUG", "CRITICAL"}

Init ==
    /\ fileConfig \in Configs
    /\ isConfigured = FALSE
    /\ defaultHandlers = <<>>
    /\ loggerCache = {}
    /\ stdLoggers = [k \in LoggerKeys |->
                        IF k = "default" THEN StdLogger("INFO", <<StdDefaultHandler>>)
                        ELSE NoLogger]
    /\ wrapped = [k \in LoggerKeys |-> 0]
    /\ handlerLevel = [h \in Handlers |->
                        IF h \in UserHandlers THEN UserHandlerLevel[h]
                        ELSE IF h = StdDefaultHandler THEN "INFO" ELSE "none"]
    /\ lastCall = NoCall

\* Variant of the cache lookup that makes the logger anew on every request
\* (C11 tells it from the lookup).
alwaysCreated(std, name, dh) == CreateLogger(std, name, dh)

\* if (loggerCache.has(cacheKey)) the cached logger, which is @std/log's
\* logger of that name; else getStdLogger(name), initialized if it has no
\* sinks, which the caller then caches
CachedOrCreated(std, name, dh) ==
    IF cacheKey(name) \in loggerCache THEN std ELSE CreateLogger(std, name, dh)

\* Variant of the cache update that keeps the latest entry only (C23 tells it
\* from the update).
cacheOnly(cache, key) == {key}

\* loggerCache.set(cacheKey, logger): a Map keeps its other entries, and a key
\* it already has stays one entry
cacheSet(cache, key) == cache \cup {key}

\* getLogger(name)
getLogger(name) ==
    LET s == setupLoggerSync
        key == cacheKey(name)
    IN  /\ Idle
        /\ TotalWraps < MaxWraps
        /\ isConfigured' = TRUE
        /\ defaultHandlers' = s.dh
        /\ handlerLevel' = s.hl
        /\ stdLoggers' = CachedOrCreated(s.std, name, s.dh)
        /\ loggerCache' = cacheSet(loggerCache, key)
        /\ wrapped' = [wrapped EXCEPT ![key] = @ + 1]
        /\ lastCall' = NoCall
        /\ UNCHANGED fileConfig

\* getAllLoggers()
getAllLoggers ==
    LET s == setupLoggerSync
    IN  /\ Idle
        /\ isConfigured' = TRUE
        /\ defaultHandlers' = s.dh
        /\ handlerLevel' = s.hl
        /\ stdLoggers' = s.std
        /\ lastCall' = NoCall
        /\ UNCHANGED <<fileConfig, loggerCache, wrapped>>

\* attachHandler(loggerName, handler)
attachHandler(name, h) ==
    LET s == setupLoggerSync
        key == cacheKey(name)
        std == CachedOrCreated(s.std, name, s.dh)
    IN  /\ Idle
        /\ Attached(stdLoggers) < MaxAttached
        /\ isConfigured' = TRUE
        /\ defaultHandlers' = s.dh
        /\ handlerLevel' = s.hl
        /\ stdLoggers' = [std EXCEPT ![key] = PushHandler(@, h)]
        /\ loggerCache' = cacheSet(loggerCache, key)
        /\ lastCall' = HandlerCall("attachHandler", name, h, std[key].handlers)
        /\ UNCHANGED <<fileConfig, wrapped>>

\* detachHandler(loggerName, handler): no setup; a name without a cache entry
\* goes to @std/log's logger of that name
detachHandler(name, h) ==
    LET key == cacheKey(name)
        std == IF key \in loggerCache THEN stdLoggers ELSE getStdLogger(stdLoggers, key)
    IN  /\ Idle
        /\ stdLoggers' = [std EXCEPT ![key] = RemoveHandler(@, h)]
        /\ lastCall' = HandlerCall("detachHandler", name, h, std[key].handlers)
        /\ UNCHANGED <<fileConfig, isConfigured, defaultHandlers, loggerCache, wrapped,
                       handlerLevel>>

\* logger[method](msg, ...args) on the logger getLogger(name) returned
log(name, method, c) ==
    LET key == cacheKey(name)
    IN  /\ Idle
        /\ wrapped[key] > 0
        /\ lastCall' = [name |-> name, method |-> method, level |-> MethodLevel[method],
                        msg |-> c.msg, args |-> c.args, err |-> NoError, depth |-> wrapped[key],
                        handler |-> "", before |-> <<>>, earlier |-> <<>>,
                        trace |-> createLogMethod(World, key, MethodLevel[method],
                                                  wrapped[key], c.msg, c.args)]
        /\ UNCHANGED <<fileConfig, isConfigured, defaultHandlers, loggerCache, stdLoggers,
                       wrapped, handlerLevel>>

\* logger.exception(error) on the logger getLogger(name) returned
exception(name, e) ==
    LET key == cacheKey(name)
    IN  /\ Idle
        /\ wrapped[key] > 0
        /\ lastCall' = [name |-> name, method |-> "exception", level |-> "ERROR",
                        msg |-> <<>>, args |-> <<>>, err |-> e, depth |-> wrapped[key],
                        handler |-> "", before |-> <<>>, earlier |-> <<>>,
                        trace |-> createExceptionMethod(World, key, wrapped[key], e)]
        /\ UNCHANGED <<fileConfig, isConfigured, defaultHandlers, loggerCache, stdLoggers,
                       wrapped, handlerLevel>>

\* The (msg, ...args) of a call made straight after another.
NextInputs == { [msg |-> <<Lit("done")>>, args |-> <<>>] }

\* The methods of a call made straight after another.
NextMethods == {"info"}

\* logger[method](msg, ...args) as the caller's next statement after a call on
\* the same logger that some sink emitted: what the earlier call handed the
\* sinks stays with them
logAgain(method, c) ==
    LET key == cacheKey(lastCall.name)
    IN  /\ lastCall.method \in Methods
        /\ lastCall.earlier = <<>>
        /\ \E i \in DOMAIN lastCall.trace : lastCall.trace[i].to # <<>>
        /\ lastCall' = [name |-> lastCall.name, method |-> method,
                        level |-> MethodLevel[method],
                        msg |-> c.msg, args |-> c.args, err |-> NoError, depth |-> wrapped[key],
                        handler |-> "", before |-> <<>>,
                        earlier |-> SelectSeq(lastCall.trace,
                                              LAMBDA e : e.ev = "std" /\ e.to # <<>>),
                        trace |-> createLogMethod(World, key, MethodLevel[method],
                                                  wrapped[key], c.msg, c.args)]
        /\ UNCHANGED <<fileConfig, isConfigured, defaultHandlers, loggerCache, stdLoggers,
                       wrapped, handlerLevel>>

\* logger.level = level, by the holder of a logger getLogger(name) returned
setLevel(name, level) ==
    LET key == cacheKey(name)
    IN  /\ Idle
        /\ wrapped[key] > 0
        /\ stdLoggers' = [stdLoggers EXCEPT ![key].level = level]
        /\ lastCall' = NoCall
        /\ UNCHANGED <<fileConfig, isConfigured, defaultHandlers, loggerCache, wrapped,
                       handlerLevel>>

\* The caller has looked at what the call did (the sinks' captured messages,
\* the callables' counters) and goes on.
observe ==
    /\ ~Idle
    /\ lastCall' = NoCall
    /\ UNCHANGED <<fileConfig, isConfigured, defaultHandlers, loggerCache, stdLoggers,
                   wrapped, handlerLevel>>

Next ==
    \/ \E name \in NameArgs : getLogger(name)
    \/ getAllLoggers
    \/ \E name \in NameArgs, h \in UserHandlers : attachHandler(name, h)
    \/ \E name \in NameArgs, h \in UserHandlers : detachHandler(name, h)
    \/ \E name \in NameArgs, method \in Methods, c \in CallInputs : log(name, method, c)
    \/ \E method \in NextMethods, c \in NextInputs : logAgain(method, c)
    \/ \E name \in NameArgs, e \in ErrorValues : exception(name, e)
    \/ \E name \in NameArgs, level \in AssignedLevels : setLevel(name, level)
    \/ observe

Spec == Init /\ [][Next]_vars

\* ===================================================== sinks that change level

\* h.level = level, by the caller who made the sink h and still holds it
setHandlerLevel(h, level) ==
    /\ Idle
    /\ handlerLevel[h] # level
    /\ handlerLevel' = [handlerLevel EXCEPT ![h] = level]
    /\ lastCall' = NoCall
    /\ UNCHANGED <<fileConfig, isConfigured, defaultHandlers, loggerCache, stdLoggers, wrapped>>

\* The operations of a caller who obtains loggers, attaches and detaches
\* sinks, reassigns the levels of loggers and of sinks, and logs in between.
GateNext ==
    \/ \E name \in NameArgs : getLogger(name)
    \/ \E name \in NameArgs, h \in UserHandlers : attachHandler(name, h)
    \/ \E name \in NameArgs, h \in UserHandlers : detachHandler(name, h)
    \/ \E name \in NameArgs, level \in AssignedLevels : setLevel(name, level)
    \/ \E h \in UserHandlers, level \in AssignedLevels : setHandlerLevel(h, level)
    \/ \E name \in NameArgs, method \in Methods, c \in NextInputs : log(name, method, c)
    \/ \E name \in NameArgs, e \in ErrorValues : exception(name, e)
    \/ observe

SpecGate == Init /\ [][GateNext]_vars

\* ================================================ detaching the built sinks

\* detachHandler(loggerName, logger.handlers[i]): the caller detaches a sink
\* that setup built, taken from the public sink list of a logger it holds
detachBuilt(name, h) ==
    /\ \E k \in LoggerKeys :
          wrapped[k] > 0 /\ IndexOf(stdLoggers[k].handlers, h) # 0
    /\ detachHandler(name, h)

\* The operations of a caller who obtains loggers, attaches its own sinks,
\* detaches its own sinks and the built ones, and logs in between.
SinksNext ==
    \/ \E name \in NameArgs : getLogger(name)
    \/ \E name \in NameArgs, h \in UserHandlers : attachHandler(name, h)
    \/ \E name \in NameArgs, h \in UserHandlers : detachHandler(name, h)
    \/ \E name \in NameArgs, h \in ConfigHandlers : detachBuilt(name, h)
    \/ \E name \in NameArgs, method \in Methods, c \in NextInputs : log(name, method, c)
    \/ observe

SpecSinks == Init /\ [][SinksNext]_vars

\* ============================================================ bytes as hex

\* The longest byte sequence of the model.
MaxHexLen == 3

\* The byte values of the model: below 16 (one hex digit before padding) and
\* above, letters and digits.
ByteValues == {0, 10, 222, 255}

RECURSIVE SeqsUpTo(_, _)
\* The sequences over a set of at most n entries.
SeqsUpTo(S, n) ==
    IF n = 0 THEN {<<>>}
    ELSE LET shorter == SeqsUpTo(S, n - 1)
         IN  shorter \cup {Append(q, x) : q \in {r \in shorter : Len(r) = n - 1}, x \in S}

\* maxBytes?: number, when it was not given
Undefined == -1

HexDigits == <<"0", "1", "2", "3", "4", "5", "6", "7", "8", "9", "a", "b", "c", "d", "e", "f">>

\* b.toString(16): no leading zero
toString16(b) ==
    IF b < 16 THEN HexDigits[b + 1] ELSE HexDigits[(b \div 16) + 1] \o HexDigits[(b % 16) + 1]

\* .padStart(2, "0") of what toString(16) gave for b
padStart2(b) == IF b < 16 THEN "0" \o toString16(b) ELSE toString16(b)

RECURSIVE String(_)
\* `${n}` of a count
String(n) == IF n < 10 THEN HexDigits[n + 1] ELSE String(n \div 10) \o HexDigits[(n % 10) + 1]

RECURSIVE mapJoin(_)
\* Array.from(bytes).map((b) => b.toString(16).padStart(2, "0")).join("")
mapJoin(bytes) ==
    IF bytes = <<>> THEN "" ELSE padStart2(bytes[1]) \o mapJoin(Tail(bytes))

\* bytes.slice(0, maxBytes)
slice(bytes, maxBytes) == SubSeq(bytes, 1, maxBytes)

\* toHexCompact(data, maxBytes) for a byte array: truncated with a marker when
\* maxBytes is given and exceeded, else every byte
toHexCompact(data, maxBytes) ==
    IF maxBytes # Undefined /\ Len(data) > maxBytes
    THEN mapJoin(slice(data, maxBytes)) \o "... [truncated, "
            \o String(Len(data) - maxBytes) \o " more bytes]"
    ELSE mapJoin(data)

\* The %h conversion of a byte array: the precision, when one is written, is
\* the maxBytes of toHexCompact.
HexCall(data, precision) ==
    [method |-> "%h", data |-> data, precision |-> precision,
     text |-> toHexCompact(data, precision)]

\* preprocessHexFormatters for one %h or %.<precision>h and its argument
preprocessHexFormatters(data, precision) ==
    /\ Idle
    /\ lastCall' = HexCall(data, precision)
    /\ UNCHANGED <<fileConfig, isConfigured, defaultHandlers, loggerCache, stdLoggers,
                   wrapped, handlerLevel>>

\* A format as its conversion letters in order, with one argument for each:
\* a byte array (of k + 1 bytes at place k) for %h and a number for %d.
MixedLetters == {"d", "h"}

ArgFor(letters, k) ==
    IF letters[k] = "h" THEN [k |-> "bytes", v |-> <<222>> \o [i \in 1..k |-> 10]]
    ELSE [k |-> "num", v |-> 100 + k]

MixedInputs ==
    { [letters |-> l, args |-> [k \in 1..Len(l) |-> ArgFor(l, k)]] :
        l \in SeqsUpTo(MixedLetters, MaxHexLen) }

\* toHexCompact of any argument: of a number, Array.from(data) is empty and
\* the result is the empty string
toHexOf(arg) == IF arg.k = "bytes" THEN toHexCompact(arg.v, Undefined) ELSE ""

\* The number of %h in a format: one argIndex++ for each match of the regex
hexMatches(letters) == Len(SelectSeq(letters, LAMBDA c : c = "h"))

\* processedArgs: the j-th match of %h takes args[argIndex++], the j-th
\* argument, as hex; then processedArgs.push(...args.slice(argIndex))
processedArgs(letters, args) ==
    LET n == Min(hexMatches(letters), Len(args))
    IN  [k \in 1..Len(args) |->
            IF k <= n THEN [k |-> "str", v |-> toHexOf(args[k])] ELSE args[k]]

\* processedMsg: each matched %h becomes %s, the other conversions stay
processedMsg(letters, args) ==
    LET n == Min(hexMatches(letters), Len(args))
        RECURSIVE walk(_, _)
        walk(ls, j) ==
            IF ls = <<>> THEN <<>>
            ELSE IF ls[1] = "h"
                 THEN <<IF j < n THEN "s" ELSE "h">> \o walk(Tail(ls), j + 1)
                 ELSE <<ls[1]>> \o walk(Tail(ls), j)
    IN  walk(letters, 0)

\* const [processedMsg, processedArgs] = preprocessHexFormatters(msg, args),
\* handed to sprintf, for a format that mixes %h with %d
mixedFormat(c) ==
    /\ Idle
    /\ lastCall' = [method |-> "mixed", letters |-> c.letters, args |-> c.args,
                    msg |-> processedMsg(c.letters, c.args),
                    processed |-> processedArgs(c.letters, c.args)]
    /\ UNCHANGED <<fileConfig, isConfigured, defaultHandlers, loggerCache, stdLoggers,
                   wrapped, handlerLevel>>

HexNext ==
    \/ \E data \in SeqsUpTo(ByteValues, MaxHexLen),
           precision \in {Undefined} \cup (0..MaxHexLen) :
            preprocessHexFormatters(data, precision)
    \/ \E c \in MixedInputs : mixedFormat(c)

SpecHex == Init /\ [][HexNext]_vars

\* ========================================================= the latest call

CallKey == cacheKey(lastCall.name)

\* The latest call is one of debug/info/warn/warning/error/critical.
IsLogCall == lastCall.method \in Methods

\* The places of the events of one kind in what the latest call did.
EventsOf(ev) == {i \in DOMAIN lastCall.trace : lastCall.trace[i].ev = ev}

\* The sink list of the called logger, and the gate's two conditions on it as
\* the specification words them.
CallSinks == stdLoggers[CallKey].handlers

LoggerAdmits(s) == LogLevels[stdLoggers[CallKey].level] <= LogLevels[s]

SomeSinkAdmits(s) ==
    \E i \in DOMAIN CallSinks : LogLevels[handlerLevel[CallSinks[i]]] <= LogLevels[s]

Visible(s) == LoggerAdmits(s) /\ SomeSinkAdmits(s)

\* The texts of the library's own records: the diagnostic of a callable that
\* threw, and the warning about a sprintf that threw.
DiagnosticText(f) == "Error evaluating lazy argument: " \o LazyFns[f].v

LibraryTexts ==
    {DiagnosticText(f) : f \in DOMAIN LazyFns} \cup {SprintfFailed(ConversionError)}

\* The records of the call itself that reached the underlying logger: those
\* on the called logger at the call's severity, the library's own left out.
OwnRecords ==
    {i \in EventsOf("std") :
        /\ lastCall.trace[i].logger = CallKey
        /\ lastCall.trace[i].level = lastCall.level
        /\ lastCall.trace[i].text \notin LibraryTexts}

\* How many times the latest call invoked the callable f.
Invocations(f) == Cardinality({i \in EventsOf("invoke") : lastCall.trace[i].text = f})

\* The callables among the arguments of the latest call, in argument order.
LazyArgs == SelectSeq(lastCall.args, LAMBDA a : a.k = "lazy")

\* The callables the latest call invoked, in the order it invoked them.
InvokedInOrder ==
    LET inv == SelectSeq(lastCall.trace, LAMBDA e : e.ev = "invoke")
    IN  [i \in DOMAIN inv |-> inv[i].text]

\* How many entries of a sink list are the sink h.
Occurrences(handlers, h) == Cardinality({i \in DOMAIN handlers : handlers[i] = h})

\* How many times the events of a trace made the sink h emit.
RECURSIVE EmitsIn(_, _)
EmitsIn(trace, h) ==
    IF trace = <<>> THEN 0 ELSE Occurrences(trace[1].to, h) + EmitsIn(Tail(trace), h)

\* How many times the latest call made the sink h emit, in all and for the
\* call's own message.
Emits(h) == EmitsIn(lastCall.trace, h)

OwnEmits(h) ==
    EmitsIn(SelectSeq(lastCall.trace, LAMBDA e : e.ev = "std" /\ e.text \notin LibraryTexts), h)

\* The records of the latest call that some sink emitted, in order.
Emitted == SelectSeq(lastCall.trace, LAMBDA e : e.ev = "std" /\ e.to # <<>>)

\* The default logger, where the library's own records go, lets ERROR through.
DefaultAdmitsError ==
    /\ LogLevels[stdLoggers["default"].level] <= LogLevels["ERROR"]
    /\ \E i \in DOMAIN stdLoggers["default"].handlers :
            LogLevels[handlerLevel[stdLoggers["default"].handlers[i]]] <= LogLevels["ERROR"]

\* ------------------------------------------------------------------- C1

\* C1: a debug/info/warn/error/critical call of severity s hands a record to
\* the underlying logger if and only if the logger's minimum severity is at
\* most s and some sink attached to it has minimum severity at most s; in
\* every other case the call has rendered nothing and emitted nothing.
C1_GateDecidesRecord ==
    IsLogCall =>
        /\ (OwnRecords # {}) <=> Visible(lastCall.level)
        /\ ~Visible(lastCall.level) => lastCall.trace = <<>>

\* C1 witness: a call with arguments that the logger's own level admits and
\* no sink does, so that it did nothing.
C1_Witness ==
    /\ IsLogCall
    /\ lastCall.args # <<>>
    /\ LoggerAdmits(lastCall.level)
    /\ CallSinks # <<>>
    /\ ~SomeSinkAdmits(lastCall.level)
    /\ lastCall.trace = <<>>

\* ------------------------------------------------------------------- C2

\* C2: a DEBUG call on a logger whose attached sinks all have minimum severity
\* INFO or above invokes none of its callable arguments and emits no record.
C2_DebugCallLeavesLazyAlone ==
    ( /\ IsLogCall
      /\ lastCall.level = "DEBUG"
      /\ \A i \in DOMAIN CallSinks :
            LogLevels[handlerLevel[CallSinks[i]]] >= LogLevels["INFO"] )
    => /\ \A i \in DOMAIN lastCall.args :
            lastCall.args[i].k = "lazy" => Invocations(lastCall.args[i].v) = 0
       /\ EventsOf("std") = {}

\* C2 witness: a debug call with two callables on a logger whose sinks are all
\* at INFO or above.
C2_Witness ==
    /\ lastCall.method = "debug"
    /\ Len(LazyArgs) = 2
    /\ CallSinks # <<>>
    /\ \A i \in DOMAIN CallSinks :
            LogLevels[handlerLevel[CallSinks[i]]] >= LogLevels["INFO"]
    /\ Invocations(LazyArgs[1].v) = 0
    /\ Invocations(LazyArgs[2].v) = 0

\* ------------------------------------------------------------------- C3

\* C3 as stated: an INFO call on a logger (at the level the library gives it)
\* with a sink at DEBUG attached invokes each callable argument exactly once,
\* in argument order, and a call that rendered emits the returned values.
C3_EachLazyOnceInOrder ==
    ( /\ IsLogCall
      /\ lastCall.level = "INFO"
      /\ stdLoggers[CallKey].level = "DEBUG"
      /\ \E i \in DOMAIN CallSinks : handlerLevel[CallSinks[i]] = "DEBUG" )
    => /\ \A i \in DOMAIN LazyArgs : Invocations(LazyArgs[i].v) = 1
       /\ InvokedInOrder = [i \in DOMAIN LazyArgs |-> LazyArgs[i].v]
       /\ ( lastCall.args = <<Val("lazy", "f_name"), Val("lazy", "f_age")>>
            => \A i \in OwnRecords : lastCall.trace[i].text = "Bob is 30%" )

\* ------------------------------------------------------------------- C4

\* C4 as stated: whichever path a log call takes and however many times
\* getLogger was called for the logger before, each callable argument is
\* invoked at most once.
C4_LazyAtMostOnce ==
    IsLogCall =>
        \A i \in DOMAIN lastCall.args :
            lastCall.args[i].k = "lazy" => Invocations(lastCall.args[i].v) <= 1

\* ------------------------------------------------------------------- C5

\* The sink s1, constructed at DEBUG, in the sink list of the logger of name.
OccurrencesIn(std, name) ==
    IF std[cacheKey(name)].exists THEN Occurrences(std[cacheKey(name)].handlers, "s1") ELSE 0

\* The callables among args that throw, and the values sprintf throws on.
Troubled(args) ==
    \E i \in DOMAIN args :
        \/ args[i].k = "bad"
        \/ args[i].k = "lazy" /\ LazyFns[args[i].v].throws

C6_BareMessageVerbatim ==
    (IsLogCall /\ lastCall.args = <<>> /\ Visible(lastCall.level)) =>
        /\ EventsOf("sprintf") = {}
        /\ Len(lastCall.trace) = 1
        /\ lastCall.trace[1].ev = "std"
        /\ lastCall.trace[1].text = Raw(lastCall.msg)
        /\ lastCall.trace[1].to # <<>>

\* C6 witness: a visible call of a message that holds %% and %s, without
\* arguments, on a logger wrapped twice.
C6_Witness ==
    /\ IsLogCall
    /\ lastCall.args = <<>>
    /\ lastCall.depth = 2
    /\ \E i \in DOMAIN lastCall.msg : lastCall.msg[i].t = "pct"
    /\ lastCall.trace # <<>>
    /\ lastCall.trace[1].text = "50%% of %s"

\* ------------------------------------------------------------------- C7

\* C7: whatever the format and the arguments (a wrong type for a conversion,
\* an unknown conversion letter, too few arguments, a callable that throws, a
\* value sprintf throws on), a call that passes the gate runs to its end and
\* hands its own message to the underlying logger exactly once, as the last
\* thing it does.
C7_OwnMessageOnce ==
    (IsLogCall /\ Visible(lastCall.level)) =>
        /\ Cardinality(OwnRecords) = 1
        /\ Len(lastCall.trace) \in OwnRecords
        /\ lastCall.trace[Len(lastCall.trace)].to # <<>>

\* C7 witness: a call whose sprintf threw, on a logger wrapped twice, that
\* still handed its message over once.
C7_Witness ==
    /\ IsLogCall
    /\ lastCall.depth = 2
    /\ \E i \in DOMAIN lastCall.args : lastCall.args[i].k = "bad"
    /\ \E i \in EventsOf("std") : lastCall.trace[i].text = SprintfFailed(ConversionError)
    /\ Cardinality(OwnRecords) = 1

\* ------------------------------------------------------------------- C8

\* The callables among the arguments of the latest call that throw.
ThrowingArgs == SelectSeq(LazyArgs, LAMBDA a : LazyFns[a.v].throws)

ErrorText(e) ==
    CASE e.isError /\ e.stack # "" -> e.stack
      [] e.isError /\ e.stack = "" -> e.name \o ": " \o e.message
      [] OTHER -> "Non-Error exception: " \o e.str

\* C10: exception(v) emits nothing when the logger's minimum severity is
\* above ERROR or no attached sink admits ERROR; otherwise it hands exactly
\* one record to the underlying logger, at ERROR, whose text is the error
\* rendering of v, with no format processing.
C10_ExceptionGatedVerbatim ==
    lastCall.method = "exception" =>
        IF Visible("ERROR")
        THEN /\ Len(lastCall.trace) = 1
             /\ lastCall.trace[1].ev = "std"
             /\ lastCall.trace[1].logger = CallKey
             /\ lastCall.trace[1].level = "ERROR"
             /\ lastCall.trace[1].text = ErrorText(lastCall.err)
             /\ lastCall.trace[1].to # <<>>
        ELSE lastCall.trace = <<>>

\* C10 witness: exception(v) of an Error without a stack whose message holds
\* a % sequence, emitted as "name: message".
C10_Witness ==
    /\ lastCall.method = "exception"
    /\ lastCall.err.isError
    /\ lastCall.err.stack = ""
    /\ lastCall.trace # <<>>
    /\ lastCall.trace[1].text = "TypeError: bad %s"

\* ------------------------------------------------------------------ C11

\* C11: a getLogger call for a name already in the registry returns the
\* logger that is there, with its sink list and its level as they are, and
\* adds no name; a call on a logger obtained earlier reads the sink list as it
\* is now, so a sink attached since emits; and getLogger(),
\* attachHandler(undefined, S) and detachHandler(undefined, S) act on the
\* default logger and leave the named logger as it is.
C11_OneLoggerPerName ==
    [][ /\ \A name \in NameArgs :
              (getLogger(name) /\ cacheKey(name) \in loggerCache) =>
                  /\ stdLoggers'[cacheKey(name)] = stdLoggers[cacheKey(name)]
                  /\ loggerCache' = loggerCache
        /\ \A h \in UserHandlers :
              (getLogger("") \/ attachHandler("", h) \/ detachHandler("", h)) =>
                  /\ stdLoggers'["app"] = IF detachHandler("", h) THEN stdLoggers["app"]
                                          ELSE setupLoggerSync.std["app"]
                  /\ stdLoggers'["default"].exists
                  /\ (attachHandler("", h) =>
                        stdLoggers'["default"].handlers
                            = Append(setupLoggerSync.std["default"].handlers, h))
        /\ \A name \in NameArgs, method \in Methods :
              (/\ lastCall'.method = method
               /\ lastCall'.name = name
               /\ log(name, method, [msg |-> lastCall'.msg, args |-> lastCall'.args])) =>
                  \A i \in OwnRecords' :
                      lastCall'.trace[i].to
                          = Accepting(World, stdLoggers[cacheKey(name)].handlers,
                                      MethodLevel[method])
      ]_vars

\* C11 witness: the named logger was obtained twice, S is the one sink in its
\* list, attached through attachHandler, and a call on it made S emit once.
C11_Witness ==
    /\ IsLogCall
    /\ lastCall.name = "app"
    /\ lastCall.depth = 2
    /\ CallSinks = <<"s1">>
    /\ Emits("s1") = 1

\* ------------------------------------------------------------------ C12

\* getLogger(name) is the first request for the name, and setup gave the
\* name no sinks.
FirstUnconfigured(name) ==
    /\ name # ""
    /\ cacheKey(name) \notin loggerCache
    /\ setupLoggerSync.std[cacheKey(name)].handlers = <<>>

\* The sinks of a list that setup built (not attached by a caller).
Configured(handlers) == SelectSeq(handlers, LAMBDA h : h \notin UserHandlers)

SinksOf(std, key) == std[key].handlers

\* C14: detachHandler(name, S) where S is not in the sink list of the named
\* logger ends normally and changes nothing: the sink lists and the levels of
\* both loggers, the names in the registry, the default sinks and the
\* configured flag are as before.
C14_DetachAbsentIsNoOp ==
    [][ \A name \in NameArgs, h \in UserHandlers :
          (detachHandler(name, h) /\ Occurrences(SinksOf(stdLoggers, cacheKey(name)), h) = 0) =>
              /\ \A key \in LoggerKeys :
                    /\ SinksOf(stdLoggers', key) = SinksOf(stdLoggers, key)
                    /\ stdLoggers'[key].level = stdLoggers[key].level
              /\ loggerCache' = loggerCache
              /\ defaultHandlers' = defaultHandlers
              /\ isConfigured' = isConfigured
              /\ lastCall'.method = "detachHandler"
      ]_vars

\* C14 witness: detachHandler was called for a sink that was not in the
\* list of the named logger, which held other sinks, and the list is as it
\* was.
C14_Witness ==
    /\ lastCall.method = "detachHandler"
    /\ lastCall.name = "app"
    /\ lastCall.before # <<>>
    /\ Occurrences(lastCall.before, lastCall.handler) = 0
    /\ stdLoggers["app"].handlers = lastCall.before

\* ------------------------------------------------------------------ C15

\* A list without its first entry equal to h.
RECURSIVE WithoutFirst(_, _)
WithoutFirst(seq, h) ==
    IF seq = <<>> THEN <<>>
    ELSE IF Head(seq) = h THEN Tail(seq)
    ELSE <<Head(seq)>> \o WithoutFirst(Tail(seq), h)

RECURSIVE Delivered(_, _)
Delivered(trace, h) ==
    IF trace = <<>> THEN <<>>
    ELSE (IF trace[1].ev = "std"
          THEN [k \in 1..Occurrences(trace[1].to, h) |-> trace[1].text] ELSE <<>>)
            \o Delivered(Tail(trace), h)

\* What the sink h holds: what earlier calls handed it, then what the latest
\* call did.
Captured(h) == Delivered(lastCall.earlier, h) \o Delivered(lastCall.trace, h)

\* The call's own record, among the events of the latest call.
OwnTrace == SelectSeq(lastCall.trace, LAMBDA e : e.ev = "std" /\ e.text \notin LibraryTexts)

SpecLevel ==
    [debug |-> "DEBUG", info |-> "INFO", warn |-> "WARN", warning |-> "WARN",
     error |-> "ERROR", critical |-> "CRITICAL"]

\* The calls of the latest call to the called logger's underlying method of
\* the call's severity, the library's own among them.
UnderlyingCalls ==
    {i \in EventsOf("std") :
        lastCall.trace[i].logger = CallKey /\ lastCall.trace[i].level = lastCall.level}

\* The string the latest call ends with: the message as written when there
\* are no arguments or sprintf threw, else what sprintf made of it.
FinalString ==
    LET r == sprintf(World, lastCall.msg, lastCall.args)
    IN  IF lastCall.args = <<>> \/ r.threw THEN Raw(lastCall.msg) ELSE r.text

RECURSIVE JoinedArgs(_)
JoinedArgs(args) ==
    IF args = <<>> THEN ""
    ELSE IF Len(args) = 1 THEN args[1].v
    ELSE args[1].v \o " " \o JoinedArgs(Tail(args))

\* sprintf threw in the latest call.
RenderingThrew == lastCall.args # <<>> /\ sprintf(World, lastCall.msg, lastCall.args).threw

\* C18: when rendering throws in a visible call, the text of the call's own
\* record is the format string as written, a space, and the arguments as
\* text joined by spaces, so every argument is in the emitted text.
C18_RawThenArguments ==
    (IsLogCall /\ Visible(lastCall.level) /\ RenderingThrew) =>
        \A i \in OwnRecords :
            lastCall.trace[i].text = Raw(lastCall.msg) \o " " \o JoinedArgs(lastCall.args)

\* ------------------------------------------------------------------ C19

\* The conversions of a format that take an argument, in order.
Conversions(msg) == SelectSeq(msg, LAMBDA tok : tok.t = "conv" /\ tok.s \in KnownConversions)

\* The places among the arguments of the latest call where %s meets a value
\* that is not a string.
NonStringS ==
    {i \in 1..Min(Len(lastCall.args), Len(Conversions(lastCall.msg))) :
        /\ Conversions(lastCall.msg)[i].s = "s"
        /\ ResolveArg(lastCall.args[i]).k # "str"}

\* The entries the latest call put on the internal error channel.
InternalEntries == EventsOf("internal")

\* C19: in a visible call each %s that meets a value that is not a string
\* produces exactly one entry on the internal error channel, and where the
\* rendering completes the emitted message is the rendered text, with
\* %s:arg_not_a_string in the place of that conversion.
C19_OneDiagnosticPerBadS ==
    (IsLogCall /\ Visible(lastCall.level) /\ NonStringS # {}) =>
        /\ Cardinality(InternalEntries) = Cardinality(NonStringS)
        /\ ~RenderingThrew =>
              \A i \in OwnRecords :
                  lastCall.trace[i].text = sprintf(World, lastCall.msg, lastCall.args).text

\* ------------------------------------------------------------------ C20

\* Two hex digits for each byte value of the model, as the specification
\* words the rendering of a byte.
TwoHexDigits == [b \in ByteValues |->
                    CASE b = 0 -> "00" [] b = 10 -> "0a" [] b = 222 -> "de" [] b = 255 -> "ff"]

RECURSIVE Encoded(_)
Encoded(bytes) ==
    IF bytes = <<>> THEN "" ELSE TwoHexDigits[bytes[1]] \o Encoded(Tail(bytes))

\* The bytes, the precision and the text of the latest %h conversion.
HexData == lastCall.data
HexPrecision == lastCall.precision
HexText == lastCall.text

\* C20: the byte-hex conversion of b with precision n < len(b) gives the
\* first n bytes, two hex digits each, then '... [<len(b)-n> more bytes]';
\* with no precision it gives every byte and no marker.
C20_TruncatesWithMarker ==
    lastCall.method = "%h" =>
        /\ (HexPrecision # Undefined /\ HexPrecision < Len(HexData)) =>
              HexText = Encoded(SubSeq(HexData, 1, HexPrecision)) \o "... ["
                            \o String(Len(HexData) - HexPrecision) \o " more bytes]"
        /\ HexPrecision = Undefined => HexText = Encoded(HexData)

\* ------------------------------------------------------------------ C21

\* What sprintf must be given for the k-th conversion of a format when the
\* k-th conversion is rendered from the k-th argument: for %h the letter s
\* with the k-th argument as hex, for any other letter the letter with the
\* k-th argument.
PositionalLetter(k) == IF lastCall.letters[k] = "h" THEN "s" ELSE lastCall.letters[k]

PositionalArg(k) ==
    IF lastCall.letters[k] = "h"
    THEN [k |-> "str", v |-> Encoded(lastCall.args[k].v)]
    ELSE lastCall.args[k]

\* C21: in a format that mixes %h with other conversions the k-th
\* conversion is rendered from the k-th argument, whatever letters precede
\* it: each %h renders its own argument as hex and every other conversion
\* renders its own argument.
C21_KthConversionKthArgument ==
    lastCall.method = "mixed" =>
        \A k \in DOMAIN lastCall.letters :
            /\ lastCall.msg[k] = PositionalLetter(k)
            /\ lastCall.processed[k] = PositionalArg(k)

\* A step changes the sink list of the logger of key k only when it is an
\* attachHandler or a detachHandler on the name of k.
OnlyByAttachOrDetach(k) ==
    stdLoggers'[k].handlers # stdLoggers[k].handlers =>
        /\ lastCall'.method \in {"attachHandler", "detachHandler"}
        /\ cacheKey(lastCall'.name) = k

\* C23: no operation evicts or replaces a registry entry. Every step keeps
\* every key of the registry; a step that wraps the logger of a name
\* (getLogger) or attaches a sink to it (attachHandler) leaves the name's key
\* in the registry; and the logger a key maps to stays @std/log's registered
\* logger of that key, whose sink list changes only by an attach or a detach
\* on that name.
C23_NeverEvicted ==
    [][ /\ loggerCache \subseteq loggerCache'
        /\ \A k \in LoggerKeys : wrapped'[k] > wrapped[k] => k \in loggerCache'
        /\ lastCall'.method = "attachHandler" => cacheKey(lastCall'.name) \in loggerCache'
        /\ \A k \in loggerCache :
              /\ stdLoggers[k].exists /\ stdLoggers'[k].exists
              /\ OnlyByAttachOrDetach(k) ]_vars

\* Both names are in the registry, each requested through getLogger, and the
\* latest operation took a sink out of a logger's list.
C23_Witness ==
    /\ loggerCache = LoggerKeys
    /\ \A k \in LoggerKeys : wrapped[k] > 0
    /\ lastCall.method = "detachHandler"
    /\ IndexOf(lastCall.before, lastCall.handler) # 0

\* The latest step was a detachHandler of the sink h on the logger of key k.
DetachedNow(k, h) ==
    /\ lastCall'.method = "detachHandler"
    /\ cacheKey(lastCall'.name) = k
    /\ lastCall'.handler = h

FirstConfiguringCall ==
    /\ ~isConfigured
    /\ Idle
    /\ lastCall'.method \in {"none", "attachHandler"}

\* The step is a call into the library that names the logger of key k for
\* the first time after setup: k enters the registry.
FirstRequest(k) == k \notin loggerCache /\ k \in loggerCache'

\* The step is one of the library's operations (not the caller's assignment
\* of logger.level, which leaves the wrap counts and lastCall alone).
LibraryCall ==
    \/ lastCall'.method # "none"
    \/ \E k \in LoggerKeys : wrapped'[k] # wrapped[k]

Renders ==
    Cardinality({i \in EventsOf("sprintf") : lastCall.trace[i].text = Raw(lastCall.msg)})

\* C26: however many times getLogger was called for the logger, a visible call
\* with arguments renders its format string once, and its own record reaches
\* each sink once for each entry the sink has in the list (no entry for a sink
\* whose minimum severity is above the call's).
C26_RewrapRendersOnce ==
    (IsLogCall /\ Visible(lastCall.level) /\ lastCall.args # <<>>) =>
        /\ Renders = 1
        /\ \A i \in DOMAIN CallSinks :
              OwnEmits(CallSinks[i]) =
                  IF LevelLeq(handlerLevel[CallSinks[i]], lastCall.level)
                  THEN Occurrences(CallSinks, CallSinks[i]) ELSE 0

\* The latest call is a log call or exception(v).
IsCall == IsLogCall \/ lastCall.method = "exception"

\* The entries of the called logger's sink list, as it is now, whose sinks
\* have, now, a minimum severity at or below s.
AdmittingNow(s) == SelectSeq(CallSinks, LAMBDA h : LevelLeq(handlerLevel[h], s))

\* C27: every call decides on the logger's minimum severity, its sink list
\* and the sinks' minimum severities as they are when the call is made,
\* whatever they were when the logger was obtained. The call hands over a
\* record of its own exactly when the logger's level, as it is now, is at most
\* the call's severity and some sink of the list, as it is now, has a level,
\* as it is now, at most that severity; and the record goes to exactly the
\* entries of the current list that admit it at their current levels.
C27_GateReadsCurrentState ==
    IsCall =>
        LET own == OwnTrace
        IN  IF LoggerAdmits(lastCall.level) /\ AdmittingNow(lastCall.level) # <<>>
            THEN /\ Len(own) = 1
                 /\ own[1].logger = CallKey
                 /\ own[1].to = AdmittingNow(lastCall.level)
            ELSE lastCall.trace = <<>>

\* The sink s1, made at DEBUG, is in the list of a logger whose level is
\* DEBUG; the caller has since raised the levels of s1 and s2 to CRITICAL,
\* and an info call on the logger, which no other sink of the list admits
\* either, did nothing.
C27_Witness ==
    /\ lastCall.method = "info"
    /\ lastCall.depth = 1
    /\ handlerLevel["s2"] = "CRITICAL"
    /\ handlerLevel["s1"] = "CRITICAL"
    /\ Occurrences(CallSinks, "s1") = 1
    /\ stdLoggers[CallKey].level = "DEBUG"
    /\ lastCall.trace = <<>>

\* The step is the one in which setup ran.
SetupRan == ~isConfigured /\ isConfigured'

C29_EmptyUntilAttached ==
    /\ []((IsLogCall /\ CallSinks = <<>>) => lastCall.trace = <<>>)
    /\ [][ \A k \in loggerCache \ {"default"} :
              stdLoggers[k].handlers = <<>> =>
                  \/ stdLoggers'[k].handlers = <<>>
                  \/ /\ lastCall'.method = "attachHandler"
                     /\ cacheKey(lastCall'.name) = k
                     /\ stdLoggers'[k].handlers = <<lastCall'.handler>> ]_vars

\* There are default sinks; the logger "app" got sinks on its first request,
\* all of them have been detached since, getLogger("app") was called again,
\* and an info call on the logger did nothing.
C29_Witness ==
    /\ defaultHandlers # <<>>
    /\ lastCall.method = "info"
    /\ lastCall.name = "app"
    /\ lastCall.depth = 2
    /\ "app" \in loggerCache
    /\ stdLoggers["app"].handlers = <<>>
    /\ lastCall.trace = <<>>

\* The configuration lists the module "app" with a console section and a
\* file section, both disabled.
BothDisabled ==
    LET app == loadLoggingConfigSync(fileConfig).app
    IN  /\ app.configured
        /\ app.console.present /\ ~app.console.enabled
        /\ app.file.present /\ ~app.file.enabled

\* C30: for a module configured with both sinks disabled, setup builds the
\* module's logger with an empty sink list, and the first getLogger or
\* attachHandler for the module leaves it with the default sinks, in their
\* order, followed for attachHandler by the attached sink.
C30_DisabledModuleGetsDefaults ==
    [][ BothDisabled =>
          /\ (SetupRan /\ "app" \notin loggerCache') =>
                stdLoggers'["app"] = StdLogger("DEBUG", <<>>)
          /\ FirstRequest("app") =>
                stdLoggers'["app"].handlers =
                    defaultHandlers'
                        \o (IF lastCall'.method = "attachHandler"
                            THEN <<lastCall'.handler>> ELSE <<>>) ]_vars

\* The module "app" is configured with both sinks disabled and there are
\* default sinks; setup had run before, and the first attachHandler for "app"
\* has left its logger with the default sinks and the attached sink.
C30_Witness ==
    /\ BothDisabled
    /\ defaultHandlers # <<>>
    /\ lastCall.method = "attachHandler"
    /\ lastCall.name = "app"
    /\ wrapped["app"] = 0
    /\ wrapped["default"] > 0
    /\ lastCall.before = defaultHandlers
    /\ stdLoggers["app"].handlers = defaultHandlers \o <<lastCall.handler>>
====
